---- MODULE Spec2Model ----
(***************************************************************************)
(* State-machine model of canvas-template/preview-server.py: main() binds  *)
(* a socketserver.TCPServer on PORT with CustomHandler (a                  *)
(* SimpleHTTPRequestHandler rooted at DIRECTORY), prints its console       *)
(* lines, runs serve_forever() and maps KeyboardInterrupt / OSError to     *)
(* exit codes.  The library calls the script makes are modelled at the     *)
(* call site by what CPython's socketserver / http.server do there.        *)
(***************************************************************************)
EXTENDS Integers, Sequences, FiniteSets, TLC

VARIABLES
    pc,         \* position of main(): start, try, bound, serving, handling, raised, exited
    cwd,        \* the process's current working directory
    portBusy,   \* another process already listens on PORT
    bound,      \* this process holds the listening socket on PORT
    exc,        \* the exception that reached main()'s except clauses
    exitCode,   \* -1 while running, else the process's exit status
    out,        \* the lines main() printed to stdout, in order
    pending,    \* connections waiting in the listen backlog
    active,     \* connections whose handler has started and not finished
    logged,     \* lines printed by CustomHandler.log_message
    tracebacks, \* tracebacks printed by the server's handle_error
    req,        \* the request the running handler read
    resp        \* the response the running handler sent

vars == <<pc, cwd, portBusy, bound, exc, exitCode, out, pending, active,
          logged, tracebacks, req, resp>>

----------------------------------------------------------------------------
(* Bounds of the model. *)

MaxPathLen == 3
MaxQueue == 1
MaxRequests == 2
MaxTracebacks == 1

----------------------------------------------------------------------------
(* Program constants. *)

PORT == 8080

DIRECTORY == <<"srv", "canvas">>

\* The errno main() compares with ("# Address already in use").
EADDRINUSE_TESTED == 48

OSErrorExitCode == 1

\* Fault variant: the interrupt clause exits like the error clause.
KeyboardInterruptExitCode_Mut == OSErrorExitCode
KeyboardInterruptExitCode == 0

----------------------------------------------------------------------------
(* The environment: file system, working directories, errnos. *)

\* EADDRINUSE as the operating system numbers it: 48 on macOS/BSD, 98 on
\* Linux, 10048 (WSAEADDRINUSE) on Windows.
AddrInUseErrnos == {48, 98, 10048}

\* Other errnos socket()/bind()/listen()/select() report: EACCES, EMFILE,
\* EADDRNOTAVAIL (Linux numbering), ENOMEM.
OtherErrnos == {13, 24, 99, 12}

FS == {
    [path |-> <<"srv">>, kind |-> "dir", content |-> "", mtime |-> 1, readable |-> TRUE],
    [path |-> <<"srv", "secret">>, kind |-> "file", content |-> "OUTSIDE", mtime |-> 1, readable |-> TRUE],
    [path |-> <<"srv", "canvas">>, kind |-> "dir", content |-> "", mtime |-> 1, readable |-> TRUE],
    [path |-> <<"srv", "canvas", "index.html">>, kind |-> "file", content |-> "INDEX", mtime |-> 2, readable |-> TRUE],
    [path |-> <<"srv", "canvas", "main.css">>, kind |-> "file", content |-> "MAIN", mtime |-> 2, readable |-> TRUE],
    [path |-> <<"srv", "canvas", "css">>, kind |-> "dir", content |-> "", mtime |-> 1, readable |-> TRUE],
    [path |-> <<"srv", "canvas", "css", "main.css">>, kind |-> "file", content |-> "THEME", mtime |-> 1, readable |-> TRUE],
    [path |-> <<"srv", "canvas", "css", "secret">>, kind |-> "file", content |-> "KEY", mtime |-> 1, readable |-> FALSE]
}

Exists(p) == \E e \in FS : e.path = p
Entry(p) == CHOOSE e \in FS : e.path = p
IsDir(p) == Exists(p) /\ Entry(p).kind = "dir"
IsFile(p) == Exists(p) /\ Entry(p).kind = "file"

Cwds == {DIRECTORY, <<"srv">>}

----------------------------------------------------------------------------
(* Requests. A request path is a leading "/" or not, its "/"-separated     *)
(* segments and a trailing "/" or not; ims is the time of an effective     *)
(* If-Modified-Since header (well formed, no If-None-Match), 0 for none.   *)

Segs == {"..", "css", "main.css", "secret", "nope"}

Methods == {"GET", "HEAD", "POST"}

RECURSIVE SeqsUpTo(_)
SeqsUpTo(n) ==
    IF n = 0 THEN {<<>>}
    ELSE LET S == SeqsUpTo(n - 1)
         IN S \cup {Append(s, x) : s \in {t \in S : Len(t) = n - 1}, x \in Segs}

Requests ==
    {r \in [method : Methods, abs : BOOLEAN, segs : SeqsUpTo(MaxPathLen),
            slash : BOOLEAN, ims : {0, 1}] :
        r.segs = <<>> => (r.abs /\ r.slash)}

NoReq == [method |-> "NONE", abs |-> TRUE, segs |-> <<>>, slash |-> TRUE, ims |-> 0]

NoResp == [status |-> 0, body |-> "", file |-> <<>>, path |-> <<>>]

NoExc == [type |-> "none", errno |-> 0, inUse |-> FALSE, at |-> "none"]

----------------------------------------------------------------------------
(* CustomHandler: SimpleHTTPRequestHandler with directory=str(DIRECTORY). *)

\* Fault variant: directory= is not passed, so the handler serves os.getcwd().
HandlerDirectory_Mut == cwd
HandlerDirectory == DIRECTORY

\* posixpath.normpath on the components of the request path.
RECURSIVE NormComps(_, _, _)
NormComps(abs, comps, acc) ==
    IF comps = <<>> THEN acc
    ELSE LET c == Head(comps)
             rest == Tail(comps)
         IN IF c = "" \/ c = "."
            THEN NormComps(abs, rest, acc)
            ELSE IF c # ".." \/ (~abs /\ acc = <<>>)
                             \/ (acc # <<>> /\ acc[Len(acc)] = "..")
            THEN NormComps(abs, rest, Append(acc, c))
            ELSE IF acc # <<>>
            THEN NormComps(abs, rest, SubSeq(acc, 1, Len(acc) - 1))
            ELSE NormComps(abs, rest, acc)

\* The loop of translate_path: words that are "." or ".." are skipped, the
\* others are joined to the handler's directory.
\* Fault variant: "." and ".." words are joined like any other.
RECURSIVE JoinWords_Mut(_, _)
JoinWords_Mut(path, words) ==
    IF words = <<>> THEN path
    ELSE JoinWords_Mut(Append(path, Head(words)), Tail(words))

RECURSIVE JoinWords(_, _)
JoinWords(path, words) ==
    IF words = <<>> THEN path
    ELSE IF Head(words) \in {".", ".."}
    THEN JoinWords(path, Tail(words))
    ELSE JoinWords(Append(path, Head(words)), Tail(words))

TranslatePath(r) ==
    [path |-> JoinWords(HandlerDirectory, NormComps(r.abs, r.segs, <<>>)),
     slash |-> r.slash]

Body(r, text) == IF r.method = "GET" THEN text ELSE ""

\* send_head after the directory branch: trailing slash, open, conditional GET.
\* Fault variant: the headers are sent but the file is not copied.
SendFile_Mut(r, p, slash) ==
    IF slash \/ ~IsFile(p) \/ ~Entry(p).readable
    THEN [status |-> 404, body |-> Body(r, "File not found"), file |-> <<>>, path |-> p]
    ELSE IF r.ims # 0 /\ Entry(p).mtime <= r.ims
    THEN [status |-> 304, body |-> "", file |-> <<>>, path |-> p]
    ELSE [status |-> 200, body |-> "", file |-> p, path |-> p]
SendFile(r, p, slash) ==
    IF slash \/ ~IsFile(p) \/ ~Entry(p).readable
    THEN [status |-> 404, body |-> Body(r, "File not found"), file |-> <<>>, path |-> p]
    ELSE IF r.ims # 0 /\ Entry(p).mtime <= r.ims
    THEN [status |-> 304, body |-> "", file |-> <<>>, path |-> p]
    ELSE [status |-> 200, body |-> Body(r, Entry(p).content), file |-> p, path |-> p]

\* do_GET / do_HEAD through send_head; any other method has no do_* method.
Respond(r) ==
    IF r.method \notin {"GET", "HEAD"}
    THEN [status |-> 501, body |-> "Unsupported method", file |-> <<>>, path |-> <<>>]
    ELSE LET t == TranslatePath(r)
             index == Append(t.path, "index.html")
         IN IF IsDir(t.path)
            THEN IF ~t.slash
                 THEN [status |-> 301, body |-> "", file |-> <<>>, path |-> t.path]
                 ELSE IF IsFile(index)
                 THEN SendFile(r, index, FALSE)
                 ELSE [status |-> 200, body |-> Body(r, "LISTING"),
                       file |-> t.path, path |-> t.path]
            ELSE SendFile(r, t.path, t.slash)

\* log_message is called once by send_response and once more by send_error.
LogLines(rs) == IF rs.status \in {404, 501} THEN 2 ELSE 1

----------------------------------------------------------------------------
(* main() *)

Line(name, arg) == [line |-> name, arg |-> arg]

\* Fault variant: the "Server running" line is printed with the banner.
BannerLines_Mut == <<Line("banner", PORT), Line("running", PORT)>>
BannerLines == <<Line("banner", PORT)>>

\* "with socketserver.TCPServer(...) as httpd": __exit__ calls server_close().
\* Fault variant: the server is used without the with block.
BoundAfterWithExit_Mut(b) == b
BoundAfterWithExit(b) == FALSE

\* process_request of a plain TCPServer runs the handler to its end before
\* the serve loop goes on.
\* Fault variant: process_request hands the connection to a thread.
PcAfterAccept_Mut == "serving"
PcAfterAccept == "handling"

\* _handle_request_noblock: "except Exception" calls handle_error and
\* shutdown_request, and the loop goes on.
\* Fault variant: a handler exception ends the process.
PcAfterHandlerException_Mut == "exited"
PcAfterHandlerException == "serving"

\* The lines of the "except OSError" clause.
\* Fault variant: the else branch prints nothing.
OSErrorLines_Mut(e) ==
    IF e.errno = EADDRINUSE_TESTED
    THEN <<Line("port_in_use", PORT), Line("lsof_hint", PORT)>>
    ELSE <<>>
OSErrorLines(e) ==
    IF e.errno = EADDRINUSE_TESTED
    THEN <<Line("port_in_use", PORT), Line("lsof_hint", PORT)>>
    ELSE <<Line("error", e.errno)>>

Listening == pc \in {"bound", "serving", "handling"}

\* An exception leaves the try block: the with block, if entered, is exited,
\* and the connection being handled is shut down.
Raise(e) ==
    /\ pc' = "raised"
    /\ exc' = e
    /\ bound' = IF Listening THEN BoundAfterWithExit(bound) ELSE bound
    /\ pending' = 0
    /\ active' = 0
    /\ req' = NoReq
    /\ resp' = NoResp
    /\ UNCHANGED <<cwd, portBusy, exitCode, out, logged, tracebacks>>

PrintBanner ==
    /\ pc = "start"
    /\ out' = out \o BannerLines
    /\ pc' = "try"
    /\ UNCHANGED <<cwd, portBusy, bound, exc, exitCode, pending, active,
                   logged, tracebacks, req, resp>>

\* A KeyboardInterrupt before the try block is entered is not caught.
InterruptOutsideTry ==
    /\ pc = "start"
    /\ pc' = "exited"
    /\ exc' = [type |-> "KeyboardInterrupt", errno |-> 0, inUse |-> FALSE, at |-> "start"]
    /\ exitCode' \in {1, 130}
    /\ UNCHANGED <<cwd, portBusy, bound, out, pending, active, logged,
                   tracebacks, req, resp>>

BindOk ==
    /\ pc = "try"
    /\ ~portBusy
    /\ bound' = TRUE
    /\ pc' = "bound"
    /\ UNCHANGED <<cwd, portBusy, exc, exitCode, out, pending, active,
                   logged, tracebacks, req, resp>>

BindAddrInUse ==
    /\ pc = "try"
    /\ portBusy
    /\ \E n \in AddrInUseErrnos :
           Raise([type |-> "OSError", errno |-> n, inUse |-> TRUE, at |-> "try"])

BindOtherError ==
    /\ pc = "try"
    /\ ~portBusy
    /\ \E n \in OtherErrnos :
           Raise([type |-> "OSError", errno |-> n, inUse |-> FALSE, at |-> "try"])

PrintRunning ==
    /\ pc = "bound"
    /\ out' = Append(out, Line("running", PORT))
    /\ pc' = "serving"
    /\ UNCHANGED <<cwd, portBusy, bound, exc, exitCode, pending, active,
                   logged, tracebacks, req, resp>>

Connect ==
    /\ Listening
    /\ pending < MaxQueue
    /\ pending' = pending + 1
    /\ UNCHANGED <<pc, cwd, portBusy, bound, exc, exitCode, out, active,
                   logged, tracebacks, req, resp>>

Accept ==
    /\ pc = "serving"
    /\ pending > 0
    /\ logged < MaxRequests
    /\ pending' = pending - 1
    /\ active' = active + 1
    /\ pc' = PcAfterAccept
    /\ req' = NoReq
    /\ resp' = NoResp
    /\ UNCHANGED <<cwd, portBusy, bound, exc, exitCode, out, logged, tracebacks>>

Handle ==
    /\ pc \in {"serving", "handling"}
    /\ active > 0
    /\ req = NoReq
    /\ \E r \in Requests :
        /\ req' = r
        /\ resp' = Respond(r)
        /\ logged' = logged + LogLines(Respond(r))
    /\ UNCHANGED <<pc, cwd, portBusy, bound, exc, exitCode, out, pending,
                   active, tracebacks>>

Finish ==
    /\ pc \in {"serving", "handling"}
    /\ active > 0
    /\ req # NoReq
    /\ active' = active - 1
    /\ pc' = "serving"
    /\ req' = NoReq
    /\ resp' = NoResp
    /\ UNCHANGED <<cwd, portBusy, bound, exc, exitCode, out, pending,
                   logged, tracebacks>>

HandlerException ==
    /\ pc \in {"serving", "handling"}
    /\ active > 0
    /\ tracebacks < MaxTracebacks
    /\ tracebacks' = tracebacks + 1
    /\ active' = active - 1
    /\ pc' = PcAfterHandlerException
    /\ req' = NoReq
    /\ resp' = NoResp
    /\ UNCHANGED <<cwd, portBusy, bound, exc, exitCode, out, pending, logged>>

Interrupt ==
    /\ pc \in {"try", "bound", "serving", "handling"}
    /\ Raise([type |-> "KeyboardInterrupt", errno |-> 0, inUse |-> FALSE, at |-> pc])

ServeOSError ==
    /\ pc = "serving"
    /\ \E n \in OtherErrnos :
           Raise([type |-> "OSError", errno |-> n, inUse |-> FALSE, at |-> pc])

ExceptKeyboardInterrupt ==
    /\ pc = "raised"
    /\ exc.type = "KeyboardInterrupt"
    /\ out' = Append(out, Line("stopped", 0))
    /\ exitCode' = KeyboardInterruptExitCode
    /\ pc' = "exited"
    /\ UNCHANGED <<cwd, portBusy, bound, exc, pending, active, logged,
                   tracebacks, req, resp>>

ExceptOSError ==
    /\ pc = "raised"
    /\ exc.type = "OSError"
    /\ out' = out \o OSErrorLines(exc)
    /\ exitCode' = OSErrorExitCode
    /\ pc' = "exited"
    /\ UNCHANGED <<cwd, portBusy, bound, exc, pending, active, logged,
                   tracebacks, req, resp>>

Init ==
    /\ pc = "start"
    /\ cwd \in Cwds
    /\ portBusy \in BOOLEAN
    /\ bound = FALSE
    /\ exc = NoExc
    /\ exitCode = -1
    /\ out = <<>>
    /\ pending = 0
    /\ active = 0
    /\ logged = 0
    /\ tracebacks = 0
    /\ req = NoReq
    /\ resp = NoResp

Next ==
    \/ PrintBanner
    \/ InterruptOutsideTry
    \/ BindOk
    \/ BindAddrInUse
    \/ BindOtherError
    \/ PrintRunning
    \/ Connect
    \/ Accept
    \/ Handle
    \/ Finish
    \/ HandlerException
    \/ Interrupt
    \/ ServeOSError
    \/ ExceptKeyboardInterrupt
    \/ ExceptOSError

Spec == Init /\ [][Next]_vars

----------------------------------------------------------------------------
(* Properties. *)

HasLine(name) == \E i \in 1..Len(out) : out[i].line = name

LastLine == out[Len(out)]

IsUnder(dir, p) == Len(p) >= Len(dir) /\ SubSeq(p, 1, Len(dir)) = dir

NoDots(p) == \A i \in 1..Len(p) : p[i] \notin {".", ".."}

\* The request path is the URL of the file system entry p of the served
\* directory: its segments are p's names below DIRECTORY, no trailing "/".
Names(r, p) == r # NoReq /\ ~r.slash /\ DIRECTORY \o r.segs = p

ServedFiles == {f \in FS : f.kind = "file" /\ IsUnder(DIRECTORY, f.path)}

\* C1: when the bind fails because the port is in use, whatever errno the
\* operating system gives the address-in-use error, the process exits with
\* code 1 after printing the port-in-use line and the lsof hint.
C1_PortInUseGuidance ==
    (pc = "exited" /\ exc.type = "OSError" /\ exc.inUse)
        => /\ exitCode = 1
           /\ HasLine("port_in_use")
           /\ HasLine("lsof_hint")

\* C2: a KeyboardInterrupt raised while the serve loop is idle or handling a
\* request leaves the loop, and the process then exits with code 0 through
\* the except clause (its last line is the "Server stopped" line).
C2_InterruptExitsZero ==
    (exc.type = "KeyboardInterrupt" /\ exc.at \in {"serving", "handling"})
        => /\ pc \in {"raised", "exited"}
           /\ pc = "exited" => (exitCode = 0 /\ LastLine.line = "stopped")

C2_Witness ==
    /\ pc = "exited"
    /\ exc.type = "KeyboardInterrupt"
    /\ exc.at = "handling"
    /\ logged > 0

\* C3: once an exception has left the with block, and so whenever the
\* process has exited, this process no longer holds the listening socket.
C3_SocketClosedBeforeExit ==
    pc \in {"raised", "exited"} => ~bound

C3_Witness ==
    /\ pc = "exited"
    /\ exc.type = "KeyboardInterrupt"
    /\ HasLine("running")
    /\ exitCode = 0

\* C4: an OSError that is not the address-in-use case, from the bind or from
\* the serve loop, stops the server; the process prints "Error: <e>" last and
\* exits with code 1.
C4_OtherOSErrorExitsOne ==
    (exc.type = "OSError" /\ ~exc.inUse)
        => /\ pc \in {"raised", "exited"}
           /\ ~bound
           /\ pc = "exited" => (exitCode = 1 /\ LastLine = Line("error", exc.errno))

C4_Witness ==
    /\ pc = "exited"
    /\ exc.type = "OSError"
    /\ ~exc.inUse
    /\ exc.at = "serving"

\* C5 as stated: every GET whose path names a regular file of the served
\* directory is answered 200 with the file's contents.
C5_EveryGetOfFileIs200 ==
    \A f \in ServedFiles :
        (req.method = "GET" /\ Names(req, f.path))
            => (resp.status = 200 /\ resp.body = f.content)

\* C5 (amended): a GET whose path names a regular file of the served
\* directory that the server can open is answered 200 with the file's
\* contents, unless it carries an effective If-Modified-Since time that is
\* not before the file's modification time (that request is answered 304).
C5_PlainGetOfReadableFileIs200 ==
    \A f \in ServedFiles :
        (/\ req.method = "GET"
         /\ Names(req, f.path)
         /\ f.readable
         /\ (req.ims = 0 \/ f.mtime > req.ims))
            => (resp.status = 200 /\ resp.body = f.content)

C5_Witness ==
    /\ req.method = "GET"
    /\ req.segs = <<"css", "main.css">>
    /\ ~req.slash
    /\ resp.status = 200
    /\ resp.body = "THEME"
    /\ logged > 1

C7_ServedPathsUnderDirectory ==
    /\ resp.path # <<>> => (IsUnder(DIRECTORY, resp.path) /\ NoDots(resp.path))
    /\ resp.file # <<>> => (IsUnder(DIRECTORY, resp.file) /\ NoDots(resp.file))

C7_Witness ==
    /\ cwd # DIRECTORY
    /\ ~req.abs
    /\ req.segs = <<"..", "css", "main.css">>
    /\ resp.status = 200
    /\ resp.file = <<"srv", "canvas", "css", "main.css">>

\* C8: at most one connection is being handled, and the serve loop is back
\* at its accept point only when no handler is running.
C8_OneRequestAtATime ==
    /\ active <= 1
    /\ pc = "serving" => active = 0
    /\ active = 1 => pc = "handling"

C8_Witness ==
    /\ active = 1
    /\ pending > 0
    /\ resp.status = 200

\* C9: the serving state is left only by a KeyboardInterrupt or an OSError
\* reaching main(), and a handler that ends (by finishing or by raising an
\* ordinary exception) leaves the server listening at its accept point.
C9_ServesUntilInterrupted ==
    [][/\ (pc \in {"serving", "handling"} /\ pc' \notin {"serving", "handling"})
            => (pc' = "raised" /\ exc'.type \in {"KeyboardInterrupt", "OSError"})
       /\ (active > 0 /\ active' = 0 /\ exc' = NoExc)
            => (pc' = "serving" /\ bound')]_vars

C9_Witness ==
    /\ pc = "handling"
    /\ bound
    /\ tracebacks > 0
    /\ logged > 1
    /\ resp.status = 200

\* C10: the "Starting server" banner is the first line once the bind has
\* been attempted; the "Server running" line is printed only after a
\* successful bind, never in a run whose bind failed, and before any
\* connection is accepted.
C10_RunningLineAfterBind ==
    /\ (pc # "start" /\ exc.at # "start") => (Len(out) > 0 /\ out[1].line = "banner")
    /\ HasLine("running") => (pc \notin {"start", "try", "bound"} /\ exc.at # "try")
    /\ ~HasLine("running") => (active = 0 /\ logged = 0 /\ tracebacks = 0)
    /\ pc \in {"serving", "handling"} => HasLine("running")

C10_Witness ==
    /\ pc = "exited"
    /\ exc.type = "OSError"
    /\ exc.at = "try"
    /\ HasLine("banner")
    /\ ~HasLine("running")

====
